---- MODULE Spec2Model ----
(***************************************************************************)
(* Model of babylon/render.py: the scene builder MultiScene (used through  *)
(* its one-scene wrapper Scene), its three add_* operations and make().    *)
(*                                                                         *)
(* Numbers.  Texture coordinates and colour scalars are floats in [0,1];   *)
(* they are modelled as integers in units of 1/200, so that 0.75 is 150,   *)
(* 0.5 is 100 and 1.0 is 200.  The inputs are even, so the division of U   *)
(* by 2 (render.py:115) is exact.  Colour channels are in units of 1/1000. *)
(* Arrays are sequences; face indices are 0-based as in the code, so the   *)
(* vertex with index i is element i+1 of a vertex sequence.  An Optional   *)
(* argument is None (the empty tuple) or Some(x) (the one-element tuple).  *)
(***************************************************************************)
EXTENDS Integers, Sequences, FiniteSets, TLC

VARIABLES
    num_rows, num_cols, alpha, beta, num_frames, frame_length,  \* MultiScene fields
    obj_strs,      \* MultiScene.obj_strs: the descriptor list
    docs,          \* the documents returned by make(), oldest first
    data,          \* the arrays the caller holds and passes to add_*
    calls          \* the add_* calls made so far, with their flags

vars == <<num_rows, num_cols, alpha, beta, num_frames, frame_length,
          obj_strs, docs, data, calls>>

(***************************************************************************)
(* Bounds of the model.                                                    *)
(***************************************************************************)
MaxVerts  == 4    \* a mesh has 3..MaxVerts vertices
MaxFaces  == 2    \* a mesh has 1..MaxFaces faces
MaxFrames == 2    \* an animated entity has 1..MaxFrames frames
MaxPoints == 3    \* a point cloud or curve has 1..MaxPoints points
MaxCalls  == 2    \* add_* calls on one builder (specification Spec)
MaxMakes  == 2    \* make() calls on one builder (specification Spec)

(***************************************************************************)
(* Constants of the program, in the model's units.                         *)
(***************************************************************************)
SeamThreshold == 150    \* 0.75
HalfU         == 100    \* 0.5
OneU          == 200    \* the 1.0 a True adds

None == << >>
Some(x) == << x >>

Abs(x) == IF x < 0 THEN -x ELSE x

RECURSIVE Flatten(_)
Flatten(s) == IF s = << >> THEN << >> ELSE Head(s) \o Flatten(Tail(s))

RECURSIVE SeqMax(_)
SeqMax(s) ==
    IF Len(s) = 1 THEN s[1]
    ELSE LET m == SeqMax(Tail(s)) IN IF s[1] > m THEN s[1] ELSE m

(***************************************************************************)
(* matplotlib.cm.turbo on a scalar: an RGBA quadruple with alpha 1.  The   *)
(* table holds turbo at 0, 0.5 and 1, the scalars the inputs use.          *)
(***************************************************************************)
turbo(c) ==
    CASE c = 0   -> << 190,  72, 232, 1000 >>
      [] c = 100 -> << 644, 990, 234, 1000 >>
      [] c = 200 -> << 480,  16,  11, 1000 >>

(***************************************************************************)
(* a[..., array([1, 2, 0])] on one 3-vector.                               *)
(***************************************************************************)
PermuteAxes(v) == << v[2], v[3], v[1] >>

\* The same on an array of 3-vectors with one (N x 3) or two (F x N x 3)
\* leading dimensions.
PermutePoints(a) == [i \in 1..Len(a) |-> PermuteAxes(a[i])]
PermuteArray(a, is_animated) ==
    IF is_animated THEN [f \in 1..Len(a) |-> PermutePoints(a[f])]
    ELSE PermutePoints(a)

\* if not y_up: xs = xs[..., array([1, 2, 0])]
ConvertAxes(a, y_up, is_animated) ==
    IF ~y_up THEN PermuteArray(a, is_animated) ELSE a

\* expand_dims(a, 0)
expand_dims(a) == << a >>

(***************************************************************************)
(* The seam unwrapper, one frame (render.py:100-120).                      *)
(***************************************************************************)
\* uvs[frame, :, 0][faces], one face: the U values of its three vertices
UsOfFace(uvsF, face) == [j \in 1..3 |-> uvsF[face[j] + 1][1]]

\* (abs(diff(us, axis=-1)) > 0.75).any(axis=-1), one face
crosses_seam(us) ==
    \E j \in 1..2 : Abs(us[j + 1] - us[j]) > SeamThreshold

\* faces[crosses_seam] and faces[~crosses_seam], in face order
CrossingFaces(uvsF, faces) ==
    SelectSeq(faces, LAMBDA face : crosses_seam(UsOfFace(uvsF, face)))
NonCrossingFaces(uvsF, faces) ==
    SelectSeq(faces, LAMBDA face : ~crosses_seam(UsOfFace(uvsF, face)))

\* a[frame, crossing_faces].reshape(-1, w): the rows of a at the vertices of
\* the crossing faces, face by face
GatherRows(a, cfaces) ==
    [m \in 1..(3 * Len(cfaces)) |->
        a[cfaces[((m - 1) \div 3) + 1][((m - 1) % 3) + 1] + 1]]

\* mutant: <= for <
ShiftU_AtHalf(u) == IF u <= HalfU THEN u + OneU ELSE u

\* crossing_us_by_face += (crossing_us_by_face < 0.5), one value
ShiftU(u) == IF u < HalfU THEN u + OneU ELSE u

\* stack([crossing_us, crossing_vs], axis=-1)
CrossingUvs(uvsF, cfaces) ==
    LET rows == GatherRows(uvsF, cfaces)
    IN  [m \in 1..Len(rows) |-> << ShiftU(rows[m][1]), rows[m][2] >>]

\* mutant: V divided as well
ScaleUv_Both(uv) == << uv[1] \div 2, uv[2] \div 2 >>

\* wrapped_uvs /= array([[2, 1]]), one row
ScaleUv(uv) == << uv[1] \div 2, uv[2] \div 1 >>

\* faces.max()
FacesMax(faces) == SeqMax(Flatten(faces))

\* faces.max() + 1 + arange(len(crossing_fs)).reshape(-1, 3)
NewFaces(faces, numCrossingVerts) ==
    [k \in 1..(numCrossingVerts \div 3) |->
        [j \in 1..3 |-> FacesMax(faces) + 1 + (3 * (k - 1) + (j - 1))]]

UnwrapFrame(fsF, NsF, uvsF, faces) ==
    LET cfaces      == CrossingFaces(uvsF, faces)
        crossing_fs == GatherRows(fsF, cfaces)
        crossing_Ns == GatherRows(NsF, cfaces)
        wrapped     == uvsF \o CrossingUvs(uvsF, cfaces)
        wrapped_uvs == [m \in 1..Len(wrapped) |-> ScaleUv(wrapped[m])]
    IN  [ positions |-> Flatten(fsF \o crossing_fs),
          normals   |-> Flatten(NsF \o crossing_Ns),
          uvs       |-> Flatten(wrapped_uvs),
          indices   |-> Flatten(NonCrossingFaces(uvsF, faces)
                                \o NewFaces(faces, Len(crossing_fs))) ]

\* turbo(cs[frame]).flatten().tolist(): all four channels of every vertex
MeshColors(csF) == Flatten([i \in 1..Len(csF) |-> turbo(csF[i])])

\* The else branch of the frame loop (render.py:122-131).  A field the code
\* does not append to is None here.
CopyFrame(fsF, NsF, uvs, cs, frame, faces) ==
    [ positions |-> Flatten(fsF),
      normals   |-> Flatten(NsF),
      indices   |-> Flatten(faces),
      uvs       |-> IF uvs # None THEN Flatten(uvs[1][frame]) ELSE None,
      colors    |-> IF uvs = None /\ cs # None THEN MeshColors(cs[1][frame])
                    ELSE None ]

\* mutant: the uvs test dropped
has_colors_CsOnly(uvs, cs) == cs # None

\* has_colors = 'true' if uvs is None and cs is not None else 'false'
has_colors(uvs, cs) == uvs = None /\ cs # None

\* The body of the frame loop.
MeshFrame(fs, Ns, uvs, cs, faces, wrap_us, frame) ==
    IF uvs # None /\ wrap_us
    THEN UnwrapFrame(fs[frame], Ns[frame], uvs[1][frame], faces)
    ELSE CopyFrame(fs[frame], Ns[frame], uvs, cs, frame, faces)

(***************************************************************************)
(* MultiScene.add_mesh: the descriptor it formats.  A JavaScript object    *)
(* literal is a record; a key the f-string does not write is no field.     *)
(***************************************************************************)
MeshDescriptor(row, col, numCols, fs0, faces, Ns0, uvs0, wrap_us, cs0, y_up, is_animated) ==
    LET scene_id == row * numCols + col
        fs1 == ConvertAxes(fs0, y_up, is_animated)
        fs  == IF ~is_animated THEN expand_dims(fs1) ELSE fs1
        Ns  == IF ~is_animated THEN expand_dims(Ns0) ELSE Ns0
        uvs == IF ~is_animated /\ uvs0 # None
               THEN Some(expand_dims(uvs0[1])) ELSE uvs0
        cs  == IF ~is_animated /\ cs0 # None
               THEN Some(expand_dims(cs0[1])) ELSE cs0
        out == [frame \in 1..Len(fs) |->
                   MeshFrame(fs, Ns, uvs, cs, faces, wrap_us, frame)]
        all_positions == [f \in 1..Len(fs) |-> out[f].positions]
        all_indices   == [f \in 1..Len(fs) |-> out[f].indices]
        all_normals   == [f \in 1..Len(fs) |-> out[f].normals]
        all_uvs       == [f \in 1..Len(fs) |-> out[f].uvs]
        all_colors    == [f \in 1..Len(fs) |-> out[f].colors]
        Pack(all)     == IF ~is_animated THEN all[1] ELSE all
        base == [ type       |-> "mesh",
                  sceneId    |-> scene_id,
                  positions  |-> Pack(all_positions),
                  indices    |-> Pack(all_indices),
                  normals    |-> Pack(all_normals),
                  hasUvs     |-> (uvs # None),
                  hasColors  |-> has_colors(uvs, cs),
                  isAnimated |-> is_animated ]
    IN  IF uvs # None
        THEN base @@ [ uvs |-> Pack(all_uvs), wrapUs |-> wrap_us ]
        ELSE IF cs # None
        THEN base @@ [ colors |-> Pack(all_colors) ]
        ELSE base

\* mutant: insert(0, obj_str)
AppendObj_Front(objs, obj_str) == << obj_str >> \o objs

\* self.obj_strs.append(obj_str)
AppendObj(objs, obj_str) == Append(objs, obj_str)

(***************************************************************************)
(* MultiScene.add_point_cloud: the descriptor it formats.                  *)
(***************************************************************************)
\* turbo(cs)[..., :3], one scalar
TurboRgb(c) == SubSeq(turbo(c), 1, 3)

\* mutant: the [..., :3] dropped
PointCloudColors_Rgba(cs, is_animated) ==
    IF is_animated
    THEN [f \in 1..Len(cs) |-> [i \in 1..Len(cs[f]) |-> turbo(cs[f][i])]]
    ELSE [i \in 1..Len(cs) |-> turbo(cs[i])]

\* turbo(cs)[..., :3].tolist() for cs of shape P or F x P
PointCloudColors(cs, is_animated) ==
    IF is_animated
    THEN [f \in 1..Len(cs) |-> [i \in 1..Len(cs[f]) |-> TurboRgb(cs[f][i])]]
    ELSE [i \in 1..Len(cs) |-> TurboRgb(cs[i])]

\* xs.shape[-2]
NumPoints(xs, is_animated) == IF is_animated THEN Len(xs[1]) ELSE Len(xs)

PointCloudDescriptor(row, col, numCols, xs0, radii, cs, y_up, is_animated) ==
    LET scene_id == row * numCols + col
        xs   == ConvertAxes(xs0, y_up, is_animated)
        base == [ type       |-> "pointCloud",
                  sceneId    |-> scene_id,
                  numPoints  |-> NumPoints(xs, is_animated),
                  positions  |-> xs,
                  radii      |-> radii,
                  hasColors  |-> (cs # None),
                  isAnimated |-> is_animated ]
    IN  IF cs # None
        THEN base @@ [ colors |-> PointCloudColors(cs[1], is_animated) ]
        ELSE base

(***************************************************************************)
(* MultiScene.add_curve: the descriptor it formats.                        *)
(***************************************************************************)
\* mutant: the slice 0:1
CloseLoop_One(xsF) == xsF \o SubSeq(xsF, 1, 1)

\* concatenate([xs, xs[..., 0:2, :]], axis=-2), one frame: the slice 0:2 of a
\* one-point curve is that one point
CloseLoop(xsF) ==
    xsF \o SubSeq(xsF, 1, IF Len(xsF) < 2 THEN Len(xsF) ELSE 2)

LoopArray(xs, is_animated) ==
    IF is_animated THEN [f \in 1..Len(xs) |-> CloseLoop(xs[f])]
    ELSE CloseLoop(xs)

\* turbo(color)[:, :3] when animated, turbo(color)[:3] otherwise
CurveColors(color, is_animated) ==
    IF is_animated THEN [f \in 1..Len(color) |-> TurboRgb(color[f])]
    ELSE TurboRgb(color)

CurveDescriptor(row, col, numCols, xs0, is_looped, radius, color, y_up, is_animated) ==
    LET scene_id == row * numCols + col
        xs1  == ConvertAxes(xs0, y_up, is_animated)
        xs   == IF is_looped THEN LoopArray(xs1, is_animated) ELSE xs1
        base == [ type       |-> "curve",
                  sceneId    |-> scene_id,
                  positions  |-> xs,
                  radius     |-> radius,
                  hasColors  |-> (color # None),
                  isAnimated |-> is_animated ]
    IN  IF color # None
        THEN base @@ [ colors |-> CurveColors(color[1], is_animated) ]
        ELSE base

(***************************************************************************)
(* MultiScene.make: the renderMultiScene(...) call it formats.  The fixed  *)
(* HTML around it is left out.                                             *)
(***************************************************************************)
\* ", ".join(self.obj_strs)
JoinObjs(objs) == objs

MakeDocument(objs, a, b, nf, fl) ==
    [ objects |-> JoinObjs(objs), alpha |-> a, beta |-> b,
      num_frames |-> nf, frame_length |-> fl ]

(***************************************************************************)
(* The arrays of the callers.  Vertex i of frame f has a position and a    *)
(* normal that no other vertex has, so that a copy can be told from the    *)
(* original; its U value is drawn from USet.                               *)
(***************************************************************************)
USet == { 20, 100, 170, 190 }

MeshPos(f, i)    == << 100 * f + 10 * i + 1, 100 * f + 10 * i + 2, 100 * f + 10 * i + 3 >>
MeshNormal(f, i) == << -(100 * f + 10 * i + 1), -(100 * f + 10 * i + 2), -(100 * f + 10 * i + 3) >>
VOf(f, i)        == 20 * i + 2 * f
ColorOf(f, i)    == 100 * ((i + f) % 3)

\* frame f of an animation takes the U values of frame 1 rotated by f-1
UOf(us, f, i) == us[((i + f - 1) % Len(us)) + 1]

\* The faces of a mesh are drawn from the triangles of a strip over its
\* vertices, in strip order: 1..MaxFaces of them.
StripFace(i) == << i, i + 1, i + 2 >>

RECURSIVE StripFaces(_)
StripFaces(S) ==
    IF S = {} THEN << >>
    ELSE LET i == CHOOSE x \in S : \A y \in S : x <= y
         IN  << StripFace(i) >> \o StripFaces(S \ {i})

FaceSeqs(n) ==
    { StripFaces(S) : S \in { T \in SUBSET (0..(n - 3)) :
                                Cardinality(T) >= 1 /\ Cardinality(T) <= MaxFaces } }

\* The vertices some face references get their U from USet; a vertex no
\* face references has U = 0.1 in the first frame.
Referenced(faces) == { faces[k][j] + 1 : k \in 1..Len(faces), j \in 1..3 }
AllUs(n, us) == [v \in 1..n |-> IF v \in DOMAIN us THEN us[v] ELSE 20]

\* shape 0 is a static entity, shape F >= 1 an animated one of F frames
Shaped(Frame(_), shape) ==
    IF shape = 0 THEN Frame(1) ELSE [f \in 1..shape |-> Frame(f)]

MeshData(n, faces, us, shape) ==
    [ animated |-> (shape # 0),
      faces    |-> faces,
      fs  |-> Shaped(LAMBDA f : [i \in 1..n |-> MeshPos(f, i - 1)], shape),
      Ns  |-> Shaped(LAMBDA f : [i \in 1..n |-> MeshNormal(f, i - 1)], shape),
      uvs |-> Shaped(LAMBDA f : [i \in 1..n |-> << UOf(us, f, i - 1), VOf(f, i - 1) >>], shape),
      cs  |-> Shaped(LAMBDA f : [i \in 1..n |-> ColorOf(f, i - 1)], shape) ]

PointData(p, shape) ==
    [ animated |-> (shape # 0),
      xs    |-> Shaped(LAMBDA f : [i \in 1..p |-> MeshPos(f, i - 1)], shape),
      cs    |-> Shaped(LAMBDA f : [i \in 1..p |-> ColorOf(f, i - 1)], shape),
      color |-> Shaped(LAMBDA f : ColorOf(f, 0), shape) ]

DefaultMesh == MeshData(3, << << 0, 1, 2 >> >>, << 20, 190, 190 >>, 0)
DefaultPts  == PointData(2, 0)

Arrays(m, p) == [ mesh |-> m, pts |-> p ]

Opt(given, a) == IF given THEN Some(a) ELSE None

(***************************************************************************)
(* The operations, as called through Scene: row 0, column 0 of a 1 x 1     *)
(* grid, radii and radius left at their default 0.1.                       *)
(***************************************************************************)
\* Scene.__init__ -> MultiScene.__init__(1, 1, -pi / 4, 1.25, -1, -1)
Construct ==
    /\ num_rows = 1
    /\ num_cols = 1
    /\ alpha = -785
    /\ beta = 1250
    /\ num_frames = -1
    /\ frame_length = -1
    /\ obj_strs = << >>
    /\ docs = << >>
    /\ calls = << >>

Fields == UNCHANGED << num_rows, num_cols, alpha, beta, num_frames, frame_length, data >>

add_mesh(use_uvs, wrap_us, use_cs, y_up) ==
    LET m == data.mesh
        obj_str == MeshDescriptor(0, 0, num_cols, m.fs, m.faces, m.Ns,
                                  Opt(use_uvs, m.uvs), wrap_us, Opt(use_cs, m.cs),
                                  y_up, m.animated)
    IN  /\ obj_strs' = AppendObj(obj_strs, obj_str)
        /\ calls' = Append(calls, [ op |-> "add_mesh", use_uvs |-> use_uvs,
                                    wrap_us |-> wrap_us, use_cs |-> use_cs,
                                    y_up |-> y_up ])
        /\ UNCHANGED docs
        /\ Fields

add_point_cloud(use_cs, y_up) ==
    LET p == data.pts
        obj_str == PointCloudDescriptor(0, 0, num_cols, p.xs, 100,
                                        Opt(use_cs, p.cs), y_up, p.animated)
    IN  /\ obj_strs' = AppendObj(obj_strs, obj_str)
        /\ calls' = Append(calls, [ op |-> "add_point_cloud", use_cs |-> use_cs,
                                    y_up |-> y_up ])
        /\ UNCHANGED docs
        /\ Fields

add_curve(is_looped, use_color, y_up) ==
    LET p == data.pts
        obj_str == CurveDescriptor(0, 0, num_cols, p.xs, is_looped, 100,
                                   Opt(use_color, p.color), y_up, p.animated)
    IN  /\ obj_strs' = AppendObj(obj_strs, obj_str)
        /\ calls' = Append(calls, [ op |-> "add_curve", is_looped |-> is_looped,
                                    use_color |-> use_color, y_up |-> y_up ])
        /\ UNCHANGED docs
        /\ Fields

\* mutant: make() empties the list it has serialized
make_Consuming ==
    /\ docs' = Append(docs, MakeDocument(obj_strs, alpha, beta, num_frames, frame_length))
    /\ obj_strs' = << >>
    /\ UNCHANGED calls
    /\ Fields

make ==
    /\ docs' = Append(docs, MakeDocument(obj_strs, alpha, beta, num_frames, frame_length))
    /\ UNCHANGED << obj_strs, calls >>
    /\ Fields

AddMesh       == \E use_uvs, wrap_us, use_cs, y_up \in BOOLEAN : add_mesh(use_uvs, wrap_us, use_cs, y_up)
AddPointCloud == \E use_cs, y_up \in BOOLEAN : add_point_cloud(use_cs, y_up)
AddCurve      == \E is_looped, use_color, y_up \in BOOLEAN : add_curve(is_looped, use_color, y_up)

(***************************************************************************)
(* Spec: a builder that receives up to MaxCalls add_* calls (y_up left at  *)
(* its default) and up to MaxMakes make() calls, in any order.             *)
(***************************************************************************)
Init ==
    /\ Construct
    /\ \/ data = Arrays(DefaultMesh, DefaultPts)
       \/ data = Arrays(MeshData(3, << << 0, 1, 2 >> >>, << 20, 190, 190 >>, 1),
                        PointData(1, 1))

SceneAddMesh ==
    /\ Len(obj_strs) < MaxCalls
    /\ \E use_uvs, wrap_us, use_cs \in BOOLEAN : add_mesh(use_uvs, wrap_us, use_cs, FALSE)
SceneAddPointCloud ==
    /\ Len(obj_strs) < MaxCalls
    /\ \E use_cs \in BOOLEAN : add_point_cloud(use_cs, FALSE)
SceneAddCurve ==
    /\ Len(obj_strs) < MaxCalls
    /\ \E is_looped, use_color \in BOOLEAN : add_curve(is_looped, use_color, FALSE)
SceneMake ==
    /\ Len(docs) < MaxMakes
    /\ make

Next == SceneAddMesh \/ SceneAddPointCloud \/ SceneAddCurve \/ SceneMake

Spec == Init /\ [][Next]_vars

(***************************************************************************)
(* SpecMesh: one add_mesh call, with every combination of its flags, on    *)
(* every mesh of 3..MaxVerts vertices, 1..MaxFaces faces and U values in   *)
(* USet, static or animated in 1..MaxFrames frames.                        *)
(***************************************************************************)
InitMesh ==
    /\ Construct
    /\ \E n \in 3..MaxVerts : \E faces \in FaceSeqs(n) :
          \E us \in [Referenced(faces) -> USet] : \E shape \in 0..MaxFrames :
              data = Arrays(MeshData(n, faces, AllUs(n, us), shape), DefaultPts)

FirstAddMesh == obj_strs = << >> /\ AddMesh

NextMesh == FirstAddMesh

SpecMesh == InitMesh /\ [][NextMesh]_vars

(***************************************************************************)
(* SpecPoints: one add_point_cloud or add_curve call, with every           *)
(* combination of its flags, on 1..MaxPoints points, static or animated.   *)
(***************************************************************************)
InitPoints ==
    /\ Construct
    /\ \E p \in 1..MaxPoints : \E shape \in 0..MaxFrames :
          data = Arrays(DefaultMesh, PointData(p, shape))

FirstAddPointCloud == obj_strs = << >> /\ AddPointCloud
FirstAddCurve      == obj_strs = << >> /\ AddCurve

NextPoints == FirstAddPointCloud \/ FirstAddCurve

SpecPoints == InitPoints /\ [][NextPoints]_vars

(***************************************************************************)
(* What the claims read: call i, its descriptor and its arrays, frame by   *)
(* frame.  The crossing tests are written here from the claims' words, not *)
(* taken from the model of the code.                                       *)
(***************************************************************************)
MeshCalls  == { i \in 1..Len(calls) : calls[i].op = "add_mesh" }
CloudCalls == { i \in 1..Len(calls) : calls[i].op = "add_point_cloud" }
CurveCalls == { i \in 1..Len(calls) : calls[i].op = "add_curve" }
WrapCalls  == { i \in MeshCalls : calls[i].use_uvs /\ calls[i].wrap_us }

\* the frames of an input array, and of an emitted one
InFrames(a, animated) == IF animated THEN a ELSE << a >>
OutFrames(d, a) == IF d.isAnimated THEN a ELSE << a >>

\* a flattened list cut into rows of w numbers
Rows(flat, w) == [k \in 1..(Len(flat) \div w) |-> SubSeq(flat, w * (k - 1) + 1, w * k)]

\* the axis convention the emitted 3-vectors of call i are expected in
Converted(i, v) == IF calls[i].y_up THEN v ELSE << v[2], v[3], v[1] >>

MeshFrames == 1..Len(InFrames(data.mesh.fs, data.mesh.animated))
NumVerts   == Len(InFrames(data.mesh.fs, data.mesh.animated)[1])
InPos(f)   == InFrames(data.mesh.fs, data.mesh.animated)[f]
InNormal(f) == InFrames(data.mesh.Ns, data.mesh.animated)[f]
InUv(f)    == InFrames(data.mesh.uvs, data.mesh.animated)[f]
InColor(f) == InFrames(data.mesh.cs, data.mesh.animated)[f]

OutPos(i, f)    == Rows(OutFrames(obj_strs[i], obj_strs[i].positions)[f], 3)
OutNormal(i, f) == Rows(OutFrames(obj_strs[i], obj_strs[i].normals)[f], 3)
OutUv(i, f)     == Rows(OutFrames(obj_strs[i], obj_strs[i].uvs)[f], 2)
OutFaces(i, f)  == Rows(OutFrames(obj_strs[i], obj_strs[i].indices)[f], 3)

FaceU(f, face, j) == InUv(f)[face[j] + 1][1]

\* the maximum pairwise absolute difference of the three U values exceeds 0.75
MaxPairwiseExceeds(f, face) ==
    \E a, b \in 1..3 : FaceU(f, face, a) - FaceU(f, face, b) > 150

\* what line 101 tests: one of the consecutive differences exceeds 0.75
TreatedAsCrossing(f, face) ==
    \/ Abs(FaceU(f, face, 2) - FaceU(f, face, 1)) > 150
    \/ Abs(FaceU(f, face, 3) - FaceU(f, face, 2)) > 150

Faces == data.mesh.faces
Crossing(f)    == SelectSeq(Faces, LAMBDA face : TreatedAsCrossing(f, face))
NonCrossing(f) == SelectSeq(Faces, LAMBDA face : ~TreatedAsCrossing(f, face))
MaxIndex == CHOOSE x \in { Faces[k][j] : k \in 1..Len(Faces), j \in 1..3 } :
                \A k \in 1..Len(Faces), j \in 1..3 : Faces[k][j] <= x

\* the U a duplicated vertex is expected to get, times 2
TwiceRemappedU(u) == IF u < 100 THEN u + 200 ELSE u

(***************************************************************************)
(* C1.  add_mesh with uvs and wrap_us: in every frame a face is treated as *)
(* crossing the seam (its vertices are duplicated) if and only if the      *)
(* maximum pairwise absolute difference of its three U values exceeds      *)
(* 0.75.  Read off the output: the frame has three more vertices for each  *)
(* such face, and the faces emitted with their original indices are the    *)
(* other faces, in order.                                                  *)
(***************************************************************************)
C1_SeamIffMaxPairwise ==
    \A i \in WrapCalls : \A f \in MeshFrames :
        LET far  == SelectSeq(Faces, LAMBDA face : MaxPairwiseExceeds(f, face))
            near == SelectSeq(Faces, LAMBDA face : ~MaxPairwiseExceeds(f, face))
        IN  /\ Len(OutPos(i, f)) = NumVerts + 3 * Len(far)
            /\ Len(OutFaces(i, f)) = Len(Faces)
            /\ SubSeq(OutFaces(i, f), 1, Len(near)) = near

C3_PassThroughUnchanged ==
    \A i \in WrapCalls : \A f \in MeshFrames :
        /\ SubSeq(OutFaces(i, f), 1, Len(NonCrossing(f))) = NonCrossing(f)
        /\ \A k \in 1..Len(NonCrossing(f)) : \A j \in 1..3 :
            LET v == NonCrossing(f)[k][j] + 1
            IN  /\ OutPos(i, f)[v] = Converted(i, InPos(f)[v])
                /\ OutNormal(i, f)[v] = InNormal(f)[v]
                /\ OutUv(i, f)[v] = InUv(f)[v]

(***************************************************************************)
(* C3, amended.  The same, but the U found at those indices is half the    *)
(* input U (all U values are divided by 2); V is the input V.              *)
(***************************************************************************)
C3_PassThroughHalvedU ==
    \A i \in WrapCalls : \A f \in MeshFrames :
        /\ SubSeq(OutFaces(i, f), 1, Len(NonCrossing(f))) = NonCrossing(f)
        /\ \A k \in 1..Len(NonCrossing(f)) : \A j \in 1..3 :
            LET v == NonCrossing(f)[k][j] + 1
            IN  /\ OutPos(i, f)[v] = Converted(i, InPos(f)[v])
                /\ OutNormal(i, f)[v] = InNormal(f)[v]
                /\ 2 * OutUv(i, f)[v][1] = InUv(f)[v][1]
                /\ OutUv(i, f)[v][2] = InUv(f)[v][2]

\* a mesh with one crossing face and one face passed through
C3_Witness ==
    \E i \in WrapCalls :
        /\ Len(Crossing(1)) = 1
        /\ Len(NonCrossing(1)) = 1
        /\ OutFaces(i, 1)[1] = NonCrossing(1)[1]

(***************************************************************************)
(* C9.  add_mesh with uvs and wrap_us, face indices all below the vertex   *)
(* count: every emitted index is below the number of emitted vertices, and *)
(* the three new indices of each duplicated face lie in the trailing block *)
(* and reference the copies of that face's own vertices (positions,        *)
(* normals and remapped UVs).                                              *)
(***************************************************************************)
C9_NewIndicesReferenceCopies ==
    \A i \in WrapCalls : \A f \in MeshFrames :
        LET cross == Crossing(f)
            rest  == Len(Faces) - Len(cross)
        IN  /\ \A k \in 1..Len(OutFaces(i, f)) : \A j \in 1..3 :
                OutFaces(i, f)[k][j] < Len(OutPos(i, f))
            /\ \A k \in 1..Len(cross) : \A j \in 1..3 :
                LET idx == OutFaces(i, f)[rest + k][j]
                    v   == cross[k][j] + 1
                IN  /\ idx >= NumVerts
                    /\ OutPos(i, f)[idx + 1] = Converted(i, InPos(f)[v])
                    /\ OutNormal(i, f)[idx + 1] = InNormal(f)[v]
                    /\ 2 * OutUv(i, f)[idx + 1][1] = TwiceRemappedU(InUv(f)[v][1])
                    /\ OutUv(i, f)[idx + 1][2] = InUv(f)[v][2]

(***************************************************************************)
(* C10.  add_mesh: with y_up false the emitted normals have the axis       *)
(* permutation (a,b,c) -> (b,c,a) of the emitted positions; with y_up true *)
(* both are emitted unchanged.                                             *)
(***************************************************************************)
C10_NormalsConvertedLikePositions ==
    \A i \in MeshCalls : \A f \in MeshFrames : \A v \in 1..NumVerts :
        /\ OutPos(i, f)[v] = Converted(i, InPos(f)[v])
        /\ OutNormal(i, f)[v] = Converted(i, InNormal(f)[v])

(***************************************************************************)
(* C6.  add_mesh, for every wrap_us and is_animated: with both uvs and cs  *)
(* the descriptor has hasUvs true, hasColors false, a uvs array and no     *)
(* colors array; hasColors is true, and a colors array is there, exactly   *)
(* when uvs is absent and cs is given.                                     *)
(***************************************************************************)
C6_UvsSuppressColors ==
    \A i \in MeshCalls :
        LET d == obj_strs[i]
            c == calls[i]
        IN  /\ (c.use_uvs /\ c.use_cs) =>
                  /\ d.hasUvs
                  /\ ~d.hasColors
                  /\ "uvs" \in DOMAIN d
                  /\ "colors" \notin DOMAIN d
            /\ d.hasColors <=> (~c.use_uvs /\ c.use_cs)
            /\ ("colors" \in DOMAIN d) <=> (~c.use_uvs /\ c.use_cs)

\* an animated mesh added with uvs, wrap_us and cs
C6_Witness ==
    \E i \in MeshCalls :
        /\ calls[i].use_uvs /\ calls[i].use_cs /\ calls[i].wrap_us
        /\ obj_strs[i].isAnimated
        /\ obj_strs[i].hasUvs

(***************************************************************************)
(* C4, as stated.  Wherever scalar colours are mapped for a mesh (cs       *)
(* given, uvs absent) or a point cloud (cs given), the emitted colour      *)
(* array has exactly 3 components per vertex or point, in every frame.     *)
(***************************************************************************)
MeshColorCalls  == { i \in MeshCalls : calls[i].use_cs /\ ~calls[i].use_uvs }
CloudColorCalls == { i \in CloudCalls : calls[i].use_cs }
CloudFrames == 1..Len(InFrames(data.pts.cs, data.pts.animated))
NumCloudPoints == Len(InFrames(data.pts.cs, data.pts.animated)[1])
OutMeshColors(i, f)  == OutFrames(obj_strs[i], obj_strs[i].colors)[f]
OutCloudColors(i, f) == OutFrames(obj_strs[i], obj_strs[i].colors)[f]

CloudColorsAreRgb ==
    \A i \in CloudColorCalls : \A f \in CloudFrames :
        /\ Len(OutCloudColors(i, f)) = NumCloudPoints
        /\ \A q \in 1..NumCloudPoints : Len(OutCloudColors(i, f)[q]) = 3

C4_ColorsAreRgb ==
    /\ \A i \in MeshColorCalls : \A f \in MeshFrames :
          Len(OutMeshColors(i, f)) = 3 * NumVerts
    /\ CloudColorsAreRgb

(***************************************************************************)
(* C4, amended.  A point cloud's colours have 3 components (RGB) per       *)
(* point; a mesh's colours keep all 4 components of the colormap (RGBA,    *)
(* alpha 1) per vertex, in every frame.                                    *)
(***************************************************************************)
C4_CloudRgbMeshRgba ==
    /\ \A i \in MeshColorCalls : \A f \in MeshFrames :
          /\ Len(OutMeshColors(i, f)) = 4 * NumVerts
          /\ \A v \in 1..NumVerts : OutMeshColors(i, f)[4 * v] = 1000
    /\ CloudColorsAreRgb

\* a builder that holds a coloured mesh and a coloured point cloud
C4_Witness ==
    /\ MeshColorCalls # {}
    /\ CloudColorCalls # {}

(***************************************************************************)
(* C5, as stated.  add_curve on a curve of N >= 1 points: with is_looped   *)
(* the emitted positions (of every frame) have length N+2 and end with the *)
(* curve's first two points; without it the length stays N.                *)
(***************************************************************************)
CurveFrames == 1..Len(InFrames(data.pts.xs, data.pts.animated))
NumCurvePoints == Len(InFrames(data.pts.xs, data.pts.animated)[1])
InCurve(i, f) ==
    [q \in 1..NumCurvePoints |-> Converted(i, InFrames(data.pts.xs, data.pts.animated)[f][q])]
OutCurve(i, f) == OutFrames(obj_strs[i], obj_strs[i].positions)[f]

LoopClosed(i, f) ==
    /\ Len(OutCurve(i, f)) = NumCurvePoints + 2
    /\ SubSeq(OutCurve(i, f), 1, NumCurvePoints) = InCurve(i, f)
    /\ OutCurve(i, f)[NumCurvePoints + 1] = InCurve(i, f)[1]
    /\ OutCurve(i, f)[NumCurvePoints + 2] = InCurve(i, f)[2]

C5_LoopAddsTwoPoints ==
    \A i \in CurveCalls : \A f \in CurveFrames :
        IF calls[i].is_looped THEN LoopClosed(i, f)
        ELSE Len(OutCurve(i, f)) = NumCurvePoints

(***************************************************************************)
(* C5, amended.  The same for N >= 2; a looped curve of one point is       *)
(* emitted as that point twice (length 2).                                 *)
(***************************************************************************)
C5_LoopAddsFirstTwoPoints ==
    \A i \in CurveCalls : \A f \in CurveFrames :
        IF ~calls[i].is_looped THEN OutCurve(i, f) = InCurve(i, f)
        ELSE IF NumCurvePoints >= 2 THEN LoopClosed(i, f)
        ELSE OutCurve(i, f) = << InCurve(i, f)[1], InCurve(i, f)[1] >>

\* an animated looped curve of three points
C5_Witness ==
    \E i \in CurveCalls :
        /\ calls[i].is_looped
        /\ obj_strs[i].isAnimated
        /\ NumCurvePoints = 3
        /\ Len(OutCurve(i, 1)) = 5

(***************************************************************************)
(* C7.  After any sequence of add_mesh, add_point_cloud and add_curve      *)
(* calls the descriptor list holds one descriptor per call, in call order; *)
(* a call only appends, leaving the earlier descriptors as they were; and  *)
(* make() emits the descriptors in the order of the list.                  *)
(***************************************************************************)
TypeOf(op) ==
    CASE op = "add_mesh" -> "mesh"
      [] op = "add_point_cloud" -> "pointCloud"
      [] op = "add_curve" -> "curve"

\* descriptor d is one that call c produces
Answers(d, c) ==
    /\ d.type = TypeOf(c.op)
    /\ c.op = "add_mesh" =>
          /\ d.hasUvs = c.use_uvs
          /\ d.hasColors = (c.use_cs /\ ~c.use_uvs)
          /\ c.use_uvs => d.wrapUs = c.wrap_us
    /\ c.op = "add_point_cloud" => d.hasColors = c.use_cs
    /\ c.op = "add_curve" =>
          /\ d.hasColors = c.use_color
          /\ (Len(OutFrames(d, d.positions)[1]) > NumCurvePoints) = c.is_looped

OneDescriptorPerCall ==
    /\ Len(obj_strs) = Len(calls)
    /\ \A i \in 1..Len(calls) : Answers(obj_strs[i], calls[i])

AppendOnly ==
    calls' # calls =>
        /\ Len(obj_strs') = Len(obj_strs) + 1
        /\ SubSeq(obj_strs', 1, Len(obj_strs)) = obj_strs

MakeKeepsOrder ==
    docs' # docs =>
        /\ Len(docs') = Len(docs) + 1
        /\ docs'[Len(docs')].objects = obj_strs

C7_DescriptorsInCallOrder ==
    /\ []OneDescriptorPerCall
    /\ [][AppendOnly /\ MakeKeepsOrder]_vars

\* two different descriptors, and a document that holds both
C7_Witness ==
    /\ Len(obj_strs) = 2
    /\ obj_strs[1].type = "curve"
    /\ obj_strs[2].type = "mesh"
    /\ Len(docs) >= 1
    /\ docs[Len(docs)].objects = obj_strs

(***************************************************************************)
(* C8, as stated.  Once make() has been called, no later operation changes *)
(* the descriptor list and no second document is produced.                 *)
(***************************************************************************)
C8_NothingAfterMake ==
    [][Len(docs) >= 1 => (obj_strs' = obj_strs /\ docs' = docs)]_vars

(***************************************************************************)
(* C8, amended.  make() itself never changes the descriptor list, and a    *)
(* document once produced is never changed; add_* calls after make() still *)
(* append, and a later make() produces a further document.                 *)
(***************************************************************************)
C8_MakeDoesNotMutate ==
    [][/\ docs' # docs => obj_strs' = obj_strs
       /\ SubSeq(docs', 1, Len(docs)) = docs]_vars

\* make(), then an add_* call, then make() again
C8_Witness ==
    /\ Len(docs) = 2
    /\ Len(docs[1].objects) < Len(docs[2].objects)
    /\ docs[2].objects = obj_strs

====
